---- MODULE Spec2Model ----
(***************************************************************************)
(* Job queue of ollama_vision/web_app.py: the job store (jobs, jobs_lock),  *)
(* the admission counter (active_jobs_count, active_jobs_lock), the        *)
(* backend token (pipeline_lock), the /generate request handler and the    *)
(* worker thread process_job.  One action per critical section: a step of  *)
(* a thread is the code it runs up to and including its next lock-guarded  *)
(* block.                                                                  *)
(***************************************************************************)
EXTENDS Integers, Sequences, FiniteSets, Bags, TLC

\* ------------------------------------------------------------------ constants
MAX_CONCURRENT_JOBS == 5
KEEP_LAST == 20
\* REALVISXL_CONFIG without a config.json; guidance scales are in tenths
DEFAULT_GUIDANCE == 75
DEFAULT_STEPS == 30
RANDOM_SEED == 42
FIXED_SEED == 42

\* ------------------------------------------------------------------ bounds
MaxJobs == 2
CapJobs == 6
RetainJobs == 1
BusyJobs == 2
GateJobs == 3
SettingsJobs == 2
RemovedJobs == 1
PolledRequests == 3
IdJobs == 3
MaxIds == 2
MaxPolls == 1
ListedRequests == 3
UnlockedRequests == 2
ProfileJobs == 2
CharJobs == 2
MaxInFlight == 1
MaxCallbacks == 1

\* ------------------------------------------------------------------ values
Unset == -1
NotNumeric == -2
NoLines == << >>
NoError == ""
NoFile == 0
NoCharacter == [id |-> "", name |-> "", seed |-> 0]

VARIABLES
    jobs,               \* OrderedDict job_id -> job_info, as the sequence of its values
    detached,           \* job_info dicts deleted from jobs (still referenced by threads)
    active_jobs_count,  \* global counter
    pipeline_lock,      \* TRUE while a thread holds pipeline_lock
    threads,            \* bag of the process_job threads that have not ended
    handlers,           \* bag of the /generate requests being served
    arrived,            \* number of /generate requests received
    issued              \* number of job ids generated so far

vars == <<jobs, detached, active_jobs_count, pipeline_lock, threads, handlers, arrived, issued>>

\* ------------------------------------------------------------------ store helpers
Has(js, id) == \E i \in DOMAIN js : js[i].id = id

Idx(js, id) == CHOOSE i \in DOMAIN js : js[i].id = id

Ids(js) == {js[i].id : i \in DOMAIN js}

Rec(js, id) == js[Idx(js, id)]

Upd(js, id, j) == [js EXCEPT ![Idx(js, id)] = j]

Terminal(j) == j.status \in {"completed", "error"}

Pending(j) == j.status \in {"queued", "processing"}

CountStatus(js, s) == Cardinality({i \in DOMAIN js : js[i].status = s})

\* the dict a thread holds after get_job_info: the stored one, or the deleted one
JobRef(id) ==
    IF Has(jobs, id) THEN jobs[Idx(jobs, id)]
    ELSE CHOOSE d \in detached : d.id = id

RECURSIVE SelectSeq2(_, _)
SelectSeq2(s, keep) ==
    IF s = << >> THEN << >>
    ELSE IF Head(s).id \in keep THEN <<Head(s)>> \o SelectSeq2(Tail(s), keep)
    ELSE SelectSeq2(Tail(s), keep)

\* ------------------------------------------------------------------ create_job
\* max(lo, min(hi, v))
ClampLow(lo, hi, v) == IF v > hi THEN hi ELSE v

Clamp(lo, hi, v) == IF v < lo THEN lo ELSE IF v > hi THEN hi ELSE v

\* A value supplied for a setting is a number in tenths (127 is 12.7), Unset
\* when the key is absent, or NotNumeric: a value for which float() or int()
\* raises.  int() cuts the fraction off.
Trunc(v) == v \div 10

\* lines 68-72: whether the conversions of the supplied values succeed
SettingsValid(settings) ==
    /\ settings.guidance_scale # NotNumeric
    /\ settings.inference_steps # NotNumeric

\* lines 63-72: guidance_scale is kept in tenths, inference_steps in units
JobSettings(settings) ==
    [guidance_scale |-> IF settings.guidance_scale = Unset THEN DEFAULT_GUIDANCE
                        ELSE Clamp(10, 200, settings.guidance_scale),
     inference_steps |-> IF settings.inference_steps = Unset THEN DEFAULT_STEPS
                         ELSE Clamp(10, 150, Trunc(settings.inference_steps))]

PendingJobs(js) == Cardinality({i \in DOMAIN js : Pending(js[i])})

NewJob(js, job_id, now, prompt, optimize, consistency, settings) ==
    [id |-> job_id,
     prompt |-> prompt,
     optimize_prompt |-> optimize,
     character_consistency |-> consistency,
     settings |-> JobSettings(settings),
     status |-> "queued",
     step |-> 0,
     total |-> JobSettings(settings).inference_steps,
     stage |-> "Waiting in queue",
     queue_position |-> PendingJobs(js),
     created_at |-> now,
     filename |-> NoFile,
     optimized_prompt |-> NoLines,
     error |-> NoError,
     character |-> NoCharacter]

\* completed = [jid for jid, j in jobs.items() if j['status'] in ['completed', 'error']]
Completed(js) == SelectSeq(js, Terminal)

\* completed[:-20]
ExcessNewest(completed) ==
    IF Len(completed) > KEEP_LAST
    THEN {completed[i].id : i \in (KEEP_LAST + 1)..Len(completed)}
    ELSE {}

Excess(completed) ==
    IF Len(completed) > KEEP_LAST
    THEN {completed[i].id : i \in 1..(Len(completed) - KEEP_LAST)}
    ELSE {}

SweepAny(js) == Excess(js)

Sweep(js) == Excess(Completed(js))

\* jobs after create_job's locked block, and the dicts it deleted
\* line 94: jobs[job_id] = job_info replaces the value of a key that exists, in
\* its place
Inserted(js, job) == IF Has(js, job.id) THEN Upd(js, job.id, job) ELSE Append(js, job)

AfterCreate(js, job) == SelectSeq2(Inserted(js, job), Ids(Inserted(js, job)) \ Sweep(Inserted(js, job)))

Deleted(js, job) == {Inserted(js, job)[i] : i \in {k \in DOMAIN Inserted(js, job) : Inserted(js, job)[k].id \in Sweep(Inserted(js, job))}}

\* ------------------------------------------------------------------ process_job blocks
RenumberNone(js) == js

\* lines 134-138: queue positions of the waiting jobs, in dict order
Renumber(js) ==
    [i \in DOMAIN js |->
        IF js[i].status = "queued"
        THEN [js[i] EXCEPT !.queue_position =
                 Cardinality({k \in 1..(i - 1) : js[k].status = "queued"})]
        ELSE js[i]]

\* lines 130-138
MarkProcessing(js, id) ==
    Renumber(Upd(js, id, [Rec(js, id) EXCEPT !.status = "processing",
                                              !.stage = "Optimizing prompt"]))

\* lines 153-164: the lines kept of the model's answer, or the fallback prompt
FALLBACK_LINE_1 == ", professional portrait, high quality, detailed"
FALLBACK_LINE_2 == "studio lighting, RAW photo, shot on Canon EOS R5, 85mm f/1.8, bokeh, film grain"

ValidLines(response) == SelectSeq(response, LAMBDA l : l.text # "" /\ ~l.bullet)

Optimized(user_prompt, response) ==
    IF Len(ValidLines(response)) < 2
    THEN <<user_prompt \o FALLBACK_LINE_1, FALLBACK_LINE_2>>
    ELSE <<ValidLines(response)[1].text, ValidLines(response)[2].text>>

\* lines 169-171
MarkOptimized(js, id, lines) ==
    Upd(js, id, [Rec(js, id) EXCEPT !.optimized_prompt = lines,
                                     !.stage = "Processing prompt"])

\* lines 192-194
MarkGenerating(js, id) ==
    Upd(js, id, [Rec(js, id) EXCEPT !.stage = "Generating", !.step = 0])

\* lines 104-109
update_all_progress(js, id, step, stage) ==
    [i \in DOMAIN js |-> [js[i] EXCEPT !.step = step, !.stage = stage]]

update_job_progress(js, id, step, stage) ==
    IF Has(js, id)
    THEN Upd(js, id, [Rec(js, id) EXCEPT !.step = step, !.stage = stage])
    ELSE js

\* line 212: hash(job_id) of the running interpreter
Hash(job_id) == job_id * 7919 + 104729

\* lines 203-212
SeedOfPosition(job) ==
    IF job.character # NoCharacter THEN job.character.seed
    ELSE IF job.character_consistency THEN FIXED_SEED
    ELSE RANDOM_SEED + (Hash(job.id + job.queue_position) % 10000)

SeedOfHashOnly(job) ==
    IF job.character # NoCharacter THEN job.character.seed
    ELSE RANDOM_SEED + (Hash(job.id) % 10000)

SeedOf(job) ==
    IF job.character # NoCharacter THEN job.character.seed
    ELSE IF job.character_consistency THEN FIXED_SEED
    ELSE RANDOM_SEED + (Hash(job.id) % 10000)

\* lines 229-230
MarkSaving(js, id) == Upd(js, id, [Rec(js, id) EXCEPT !.stage = "Saving"])

\* lines 280-284
MarkCompleted(js, id) ==
    Upd(js, id, [Rec(js, id) EXCEPT !.status = "completed",
                                     !.stage = "Complete",
                                     !.filename = id,
                                     !.step = Rec(js, id).total])

\* lines 291-294
MarkError(js, id, e) ==
    Upd(js, id, [Rec(js, id) EXCEPT !.status = "error",
                                     !.stage = "Error",
                                     !.error = e])

\* ------------------------------------------------------------------ start_next_job
\* lines 307 and 314
AtCapacityOffByOne(n) == n > MAX_CONCURRENT_JOBS

AtCapacity(n) == n >= MAX_CONCURRENT_JOBS

QueuedIdx(js) == {i \in DOMAIN js : js[i].status = "queued"}

Max(S) == CHOOSE x \in S : \A y \in S : y <= x

Min(S) == CHOOSE x \in S : \A y \in S : x <= y

LastQueued(js) == js[Max(QueuedIdx(js))].id

\* lines 311-312: the first job of the dict whose status is 'queued'
FirstQueued(js) == js[Min(QueuedIdx(js))].id

\* line 319: a thread about to run process_job(job_id); locks are those of
\* jobs_lock and active_jobs_lock that it holds
NewThread(job_id) ==
    [job_id |-> job_id, pc |-> "get", exc |-> NoError, seed |-> 0, cbs |-> 0, locks |-> {}]

StartedAll(js, n) ==
    IF QueuedIdx(js) # {} /\ ~AtCapacity(n)
    THEN [t \in {NewThread(js[i].id) : i \in QueuedIdx(js)} |-> 1]
    ELSE EmptyBag

\* lines 310-321: the threads started by one scan under jobs_lock
Started(js, n) ==
    IF QueuedIdx(js) # {} /\ ~AtCapacity(n)
    THEN SetToBag({NewThread(FirstQueued(js))})
    ELSE EmptyBag

\* lines 306-308: where the caller goes after the unlocked check
AfterCheckStop(n) == "done"

AfterCheck(n) == IF AtCapacity(n) THEN "done" ELSE "sn2"

\* ------------------------------------------------------------------ profile store
Characters == [hero |-> [name |-> "Hero", description |-> "tall knight", seed |-> 777,
                         guidance_scale |-> 90, num_steps |-> Unset],
               titan |-> [name |-> "Titan", description |-> "stone giant", seed |-> 5,
                          guidance_scale |-> 250, num_steps |-> 127]]

get_character(cid) ==
    IF cid \in DOMAIN Characters
    THEN [id |-> cid, name |-> Characters[cid].name, seed |-> Characters[cid].seed]
    ELSE NoCharacter

\* character_manager.py lines 107-112
generate_character_prompt(cid, scene) == Characters[cid].description \o ", " \o scene

\* ------------------------------------------------------------------ /generate
Request(p, o, c, cid, g, s) ==
    [prompt |-> p, optimize_prompt |-> o, character_consistency |-> c,
     character_id |-> cid, guidance_scale |-> g, inference_steps |-> s]

Handler(pc, job_id, character) ==
    [pc |-> pc, job_id |-> job_id, character |-> character, locks |-> {},
     listed |-> << >>, active_count |-> 0, queued_count |-> 0]

\* lines 1676-1696
UserPrompt(r) ==
    IF get_character(r.character_id) # NoCharacter
    THEN generate_character_prompt(r.character_id, r.prompt)
    ELSE r.prompt

ConsistencyAsSent(r) == r.character_consistency

Consistency(r) ==
    IF get_character(r.character_id) # NoCharacter THEN TRUE ELSE r.character_consistency

\* lines 1698-1711
Settings(r) ==
    IF get_character(r.character_id) # NoCharacter
    THEN [guidance_scale |->
              IF Characters[r.character_id].guidance_scale # Unset
              THEN Characters[r.character_id].guidance_scale ELSE r.guidance_scale,
          inference_steps |->
              IF Characters[r.character_id].num_steps # Unset
              THEN Characters[r.character_id].num_steps ELSE r.inference_steps]
    ELSE [guidance_scale |-> r.guidance_scale, inference_steps |-> r.inference_steps]

\* the handler leaves its with block, if it was in one, and goes on
HandlerMoves(h, pc) ==
    handlers' = (handlers (-) SetToBag({h})) (+) SetToBag({[h EXCEPT !.pc = pc, !.locks = {}]})

HandlerEnds(h) == handlers' = handlers (-) SetToBag({h})

\* lines 1675-1722: a request arrives; it is rejected (400 for an empty prompt,
\* 500 when create_job raises on a setting, line 1750), or create_job runs
Create(r, max, job_id) ==
    /\ arrived < max
    /\ BagCardinality(handlers) < MaxInFlight
    /\ arrived' = arrived + 1
    /\ IF UserPrompt(r) = "" \/ ~SettingsValid(Settings(r))
       THEN UNCHANGED <<jobs, detached, issued, handlers>>
       ELSE LET job == NewJob(jobs, job_id, issued + 1, UserPrompt(r),
                              r.optimize_prompt, Consistency(r), Settings(r))
            IN  /\ jobs' = AfterCreate(jobs, job)
                /\ detached' = detached \cup Deleted(jobs, job)
                /\ issued' = issued + 1
                /\ handlers' = handlers (+) SetToBag({
                       Handler(IF get_character(r.character_id) # NoCharacter
                               THEN "attach" ELSE "sn1",
                               job_id, get_character(r.character_id))})
    /\ UNCHANGED <<active_jobs_count, pipeline_lock, threads>>

\* line 61: the request whose uuid4 prefix is one that no earlier request drew
Generate(r, max) == Create(r, max, issued + 1)

\* lines 1724-1731 (a KeyError ends the request with status 500, line 1750)
GenAttach(h) ==
    /\ h.pc = "attach"
    /\ IF Has(jobs, h.job_id)
       THEN /\ jobs' = Upd(jobs, h.job_id, [Rec(jobs, h.job_id) EXCEPT !.character = h.character])
            /\ HandlerMoves(h, "sn1")
       ELSE /\ HandlerEnds(h)
            /\ UNCHANGED jobs
    /\ UNCHANGED <<detached, active_jobs_count, pipeline_lock, threads, arrived, issued>>

\* line 1736, lines 306-308
GenStartCheck(h) ==
    /\ h.pc = "sn1"
    /\ HandlerMoves(h, IF AfterCheck(active_jobs_count) = "done" THEN "respond" ELSE "sn2")
    /\ UNCHANGED <<jobs, detached, active_jobs_count, pipeline_lock, threads, arrived, issued>>

\* line 1736, lines 310-321
GenStartScan(h) ==
    /\ h.pc = "sn2"
    /\ threads' = threads (+) Started(jobs, active_jobs_count)
    /\ active_jobs_count' = active_jobs_count + BagCardinality(Started(jobs, active_jobs_count))
    /\ HandlerMoves(h, "respond")
    /\ UNCHANGED <<jobs, detached, pipeline_lock, arrived, issued>>

\* lines 1738-1748: the job is read for the answer and the request ends
GenRespond(h) ==
    /\ h.pc = "respond"
    /\ HandlerEnds(h)
    /\ UNCHANGED <<jobs, detached, active_jobs_count, pipeline_lock, threads, arrived, issued>>

\* ------------------------------------------------------------------ process_job thread
Job(t) == JobRef(t.job_id)

BecomeHolding(t, t2) ==
    threads' = (threads (-) SetToBag({t})) (+) SetToBag({t2})

\* the thread leaves its with jobs_lock or with active_jobs_lock block, if it
\* was in one, and goes on
Become(t, t2) ==
    threads' = (threads (-) SetToBag({t})) (+) SetToBag({[t2 EXCEPT !.locks = {}]})

Goto(t, pc) == Become(t, [t EXCEPT !.pc = pc])

Raise(t, e) == Become(t, [t EXCEPT !.pc = "except", !.exc = e, !.seed = 0, !.cbs = 0])

\* answers of ollama.generate: two usable lines, or a bulleted list
LLMResponses ==
    {<<[text |-> "knight at dusk", bullet |-> FALSE], [text |-> "soft light", bullet |-> FALSE]>>,
     <<[text |-> "- knight", bullet |-> TRUE], [text |-> "", bullet |-> FALSE]>>}

\* lines 125-127: the job is looked up; a thread that finds none returns
GetJob(t) ==
    /\ t.pc = "get"
    /\ Goto(t, IF Has(jobs, t.job_id) THEN "toProc" ELSE "returned")
    /\ UNCHANGED <<jobs, detached, active_jobs_count, pipeline_lock, handlers, arrived, issued>>

\* a locked block of process_job that writes jobs[job_id]: it raises KeyError
\* when the job was deleted
Write(t, js, pc) ==
    IF Has(jobs, t.job_id)
    THEN /\ jobs' = js
         /\ Goto(t, pc)
    ELSE /\ Raise(t, "KeyError")
         /\ UNCHANGED jobs

\* lines 129-138
ToProcessing(t) ==
    /\ t.pc = "toProc"
    /\ Write(t, MarkProcessing(jobs, t.job_id), "enhance")
    /\ UNCHANGED <<detached, active_jobs_count, pipeline_lock, handlers, arrived, issued>>

\* lines 141 and 145
AlwaysOptimize(job) == TRUE

ShouldOptimize(job) == job.optimize_prompt

\* lines 140-171 with optimize_prompt set: ollama.generate answers
Enhance(t, stalled) ==
    /\ t.pc = "enhance"
    /\ ShouldOptimize(Job(t))
    /\ t.job_id \notin stalled
    /\ \E response \in LLMResponses :
          Write(t, MarkOptimized(jobs, t.job_id, Optimized(Job(t).prompt, response)), "pregen")
    /\ UNCHANGED <<detached, active_jobs_count, pipeline_lock, handlers, arrived, issued>>

\* lines 146-150: ollama.generate raises
EnhanceFails(t, stalled) ==
    /\ t.pc = "enhance"
    /\ ShouldOptimize(Job(t))
    /\ t.job_id \notin stalled
    /\ Raise(t, "ollama unavailable")
    /\ UNCHANGED <<jobs, detached, active_jobs_count, pipeline_lock, handlers, arrived, issued>>

\* lines 165-171 with optimize_prompt off
UseRawPrompt(t) ==
    /\ t.pc = "enhance"
    /\ ~ShouldOptimize(Job(t))
    /\ Write(t, MarkOptimized(jobs, t.job_id, <<Job(t).prompt>>), "pregen")
    /\ UNCHANGED <<detached, active_jobs_count, pipeline_lock, handlers, arrived, issued>>

\* lines 173-199
PreGenerate(t) ==
    /\ t.pc = "pregen"
    /\ Write(t, MarkGenerating(jobs, t.job_id), "acquire")
    /\ UNCHANGED <<detached, active_jobs_count, pipeline_lock, handlers, arrived, issued>>

\* line 201: with pipeline_lock waits while another thread holds the lock
IgnoresLock(held) == TRUE

CanEnter(held) == ~held

\* lines 201-214: pipeline_lock is taken and the seed chosen
Acquire(t) ==
    /\ t.pc = "acquire"
    /\ CanEnter(pipeline_lock)
    /\ pipeline_lock' = TRUE
    /\ Become(t, [t EXCEPT !.pc = "pipe", !.seed = SeedOf(Job(t))])
    /\ UNCHANGED <<jobs, detached, active_jobs_count, handlers, arrived, issued>>

\* lines 187-189: a step callback of the pipeline
PipeStep(t) ==
    /\ t.pc = "pipe"
    /\ t.cbs < MaxCallbacks
    /\ t.cbs < Job(t).settings.inference_steps
    /\ jobs' = update_job_progress(jobs, t.job_id, t.cbs + 1, "Generating")
    /\ Become(t, [t EXCEPT !.cbs = @ + 1])
    /\ UNCHANGED <<detached, active_jobs_count, pipeline_lock, handlers, arrived, issued>>

\* lines 216-227: the pipeline returns an image and pipeline_lock is released
PipeReturns(t) ==
    /\ t.pc = "pipe"
    /\ pipeline_lock' = FALSE
    /\ Become(t, [t EXCEPT !.pc = "saving", !.cbs = 0])
    /\ UNCHANGED <<jobs, detached, active_jobs_count, handlers, arrived, issued>>

\* line 201: whether pipeline_lock is held once an exception has left the
\* with block
HeldAfterRaise == TRUE

AfterRaise == FALSE

\* lines 216-227: the pipeline raises and pipeline_lock is released
PipeRaises(t) ==
    /\ t.pc = "pipe"
    /\ pipeline_lock' = AfterRaise
    /\ Raise(t, "pipeline failed")
    /\ UNCHANGED <<jobs, detached, active_jobs_count, handlers, arrived, issued>>

\* lines 229-230
Saving(t) ==
    /\ t.pc = "saving"
    /\ Write(t, MarkSaving(jobs, t.job_id), "persist")
    /\ UNCHANGED <<detached, active_jobs_count, pipeline_lock, handlers, arrived, issued>>

\* lines 232-284: the files are written and the job is marked completed
Persist(t) ==
    /\ t.pc = "persist"
    /\ IF Has(jobs, t.job_id)
       THEN /\ jobs' = MarkCompleted(jobs, t.job_id)
            /\ Become(t, [t EXCEPT !.pc = "finally", !.seed = 0])
       ELSE /\ Raise(t, "KeyError")
            /\ UNCHANGED jobs
    /\ UNCHANGED <<detached, active_jobs_count, pipeline_lock, handlers, arrived, issued>>

\* lines 248-257: makedirs, save or open raises
PersistFails(t) ==
    /\ t.pc = "persist"
    /\ Raise(t, "disk full")
    /\ UNCHANGED <<jobs, detached, active_jobs_count, pipeline_lock, handlers, arrived, issued>>

\* lines 289-294 (a KeyError raised here leaves through finally)
Except(t) ==
    /\ t.pc = "except"
    /\ jobs' = IF Has(jobs, t.job_id) THEN MarkError(jobs, t.job_id, t.exc) ELSE jobs
    /\ Become(t, [t EXCEPT !.pc = "finally", !.exc = NoError])
    /\ UNCHANGED <<detached, active_jobs_count, pipeline_lock, handlers, arrived, issued>>

\* where a thread goes after the decrement of lines 297-298
AfterReleaseStop == "done"

AfterRelease == "sn1"

\* line 298: active_jobs_count -= 1
ReleaseNone(n) == n

Release(n) == n - 1

\* lines 296-298
Finally(t) ==
    /\ t.pc = "finally"
    /\ active_jobs_count' = Release(active_jobs_count)
    /\ Goto(t, AfterRelease)
    /\ UNCHANGED <<jobs, detached, pipeline_lock, handlers, arrived, issued>>

\* line 300, lines 306-308
WorkerStartCheck(t) ==
    /\ t.pc = "sn1"
    /\ IF AfterCheck(active_jobs_count) = "done"
       THEN threads' = threads (-) SetToBag({t})
       ELSE Goto(t, "sn2")
    /\ UNCHANGED <<jobs, detached, active_jobs_count, pipeline_lock, handlers, arrived, issued>>

\* line 300, lines 310-321: the scan, after which the thread ends
WorkerStartScan(t) ==
    /\ t.pc = "sn2"
    /\ threads' = (threads (-) SetToBag({t})) (+) Started(jobs, active_jobs_count)
    /\ active_jobs_count' = active_jobs_count + BagCardinality(Started(jobs, active_jobs_count))
    /\ UNCHANGED <<jobs, detached, pipeline_lock, handlers, arrived, issued>>

\* ------------------------------------------------------------------ specifications
Threads == BagToSet(threads)

Handlers == BagToSet(handlers)

Idle ==
    /\ detached = {}
    /\ active_jobs_count = 0
    /\ pipeline_lock = FALSE
    /\ threads = EmptyBag
    /\ handlers = EmptyBag
    /\ arrived = 0

Init == Idle /\ jobs = << >> /\ issued = 0

Requests ==
    {Request("sunset over mountains", FALSE, TRUE, "", Unset, Unset),
     Request("a cat", TRUE, FALSE, "", Unset, Unset)}

HandlerStep ==
    \/ \E h \in Handlers : GenStartCheck(h)
    \/ \E h \in Handlers : GenStartScan(h)
    \/ \E h \in Handlers : GenRespond(h)

PipelineStep ==
    \/ \E t \in Threads : GetJob(t)
    \/ \E t \in Threads : ToProcessing(t)
    \/ \E t \in Threads : PreGenerate(t)
    \/ \E t \in Threads : Acquire(t)
    \/ \E t \in Threads : PipeStep(t)
    \/ \E t \in Threads : PipeReturns(t)
    \/ \E t \in Threads : PipeRaises(t)
    \/ \E t \in Threads : Saving(t)
    \/ \E t \in Threads : Persist(t)
    \/ \E t \in Threads : PersistFails(t)
    \/ \E t \in Threads : Except(t)
    \/ \E t \in Threads : Finally(t)
    \/ \E t \in Threads : WorkerStartCheck(t)
    \/ \E t \in Threads : WorkerStartScan(t)

Next ==
    \/ \E r \in Requests : Generate(r, MaxJobs)
    \/ HandlerStep
    \/ PipelineStep
    \/ \E t \in Threads : Enhance(t, {})
    \/ \E t \in Threads : EnhanceFails(t, {})
    \/ \E t \in Threads : UseRawPrompt(t)

Spec == Init /\ [][Next]_vars

\* ------------------------------------------------------------------ capacity scenario
\* The prompt enhancer answers one job only, the one that takes the last free
\* slot: every other admitted job keeps its slot while its thread waits in
\* ollama.generate (lines 146-150 set no timeout).
CapStalled == (1..(MAX_CONCURRENT_JOBS + CapJobs)) \ {MAX_CONCURRENT_JOBS}

CapRequests == {Request("a cat", TRUE, FALSE, "", Unset, Unset)}

NextCap ==
    \/ \E r \in CapRequests : Generate(r, CapJobs)
    \/ HandlerStep
    \/ PipelineStep
    \/ \E t \in Threads : Enhance(t, CapStalled)
    \/ \E t \in Threads : EnhanceFails(t, CapStalled)

SpecCap == Init /\ [][NextCap]_vars

\* ------------------------------------------------------------------ history scenario
\* A server that has been running.  With stuck set, job 1 was submitted with
\* optimize_prompt on and its thread still waits in ollama.generate, which
\* does not answer in this scenario (Enhance and EnhanceFails are no steps of
\* it).  The n jobs submitted next, one at a time, have all completed.
NoSettings == [guidance_scale |-> Unset, inference_steps |-> Unset]

Stuck == MarkProcessing(<<NewJob(<< >>, 1, 1, "a cat", TRUE, FALSE, NoSettings)>>, 1)

\* the record of a job that was created while the records of first were the
\* pending ones and that has run to completion on its own
DoneJob(id, first) ==
    LET job == NewJob(first, id, id, "sunset over mountains", FALSE, TRUE, NoSettings)
    IN  MarkCompleted(
            MarkSaving(
                MarkGenerating(
                    MarkOptimized(MarkProcessing(<<job>>, id), id, <<job.prompt>>),
                    id),
                id),
            id)[1]

\* the store after n such jobs, n <= KEEP_LAST + 1: no create_job among them
\* found more than KEEP_LAST terminal records, so none removed anything
Backlog(n, first) == first \o [i \in 1..n |-> DoneJob(Len(first) + i, first)]

Served(n, first) ==
    /\ jobs = Backlog(n, first)
    /\ issued = Len(first) + n
    /\ detached = {}
    /\ active_jobs_count = Len(first)
    /\ pipeline_lock = FALSE
    /\ threads = [t \in {[NewThread(first[i].id) EXCEPT !.pc = "enhance"] : i \in DOMAIN first} |-> 1]
    /\ handlers = EmptyBag
    /\ arrived = 0

RawRequests == {Request("sunset over mountains", FALSE, TRUE, "", Unset, Unset)}

NextServed ==
    \/ \E r \in RawRequests : Generate(r, RetainJobs)
    \/ HandlerStep
    \/ PipelineStep
    \/ \E t \in Threads : UseRawPrompt(t)

\* KEEP_LAST jobs have completed
SpecHistory ==
    /\ Served(KEEP_LAST, Stuck) \/ Served(KEEP_LAST, << >>)
    /\ [][NextServed]_vars

\* one more job has completed (states that SpecHistory reaches)
SpecRetain ==
    /\ Served(KEEP_LAST + 1, Stuck) \/ Served(KEEP_LAST + 1, << >>)
    /\ [][NextServed]_vars

\* ------------------------------------------------------------------ busy scenario
\* All slots but one are held: the first MAX_CONCURRENT_JOBS - 1 jobs were
\* submitted one at a time with optimize_prompt on, each was admitted, and
\* their threads wait in ollama.generate.  As in the capacity scenario the
\* enhancer answers job MAX_CONCURRENT_JOBS only.
RECURSIVE Waiting(_)
Waiting(n) ==
    IF n = 0
    THEN << >>
    ELSE MarkProcessing(
             AfterCreate(Waiting(n - 1),
                         NewJob(Waiting(n - 1), n, n, "a cat", TRUE, FALSE, NoSettings)),
             n)

NextBusy ==
    \/ \E r \in CapRequests : Generate(r, BusyJobs)
    \/ HandlerStep
    \/ PipelineStep
    \/ \E t \in Threads : Enhance(t, CapStalled)
    \/ \E t \in Threads : EnhanceFails(t, CapStalled)

SpecBusy == Served(0, Waiting(MAX_CONCURRENT_JOBS - 1)) /\ [][NextBusy]_vars

\* Threads are scheduled fairly and the calls of a job that is not stalled
\* return: a thread or request handler that can take a step takes one.  No
\* request has to arrive.
Progress ==
    \/ HandlerStep
    \/ PipelineStep
    \/ \E t \in Threads : Enhance(t, CapStalled)
    \/ \E t \in Threads : EnhanceFails(t, CapStalled)

FairSpecBusy == SpecBusy /\ WF_vars(Progress)

\* ------------------------------------------------------------------ character scenario
\* Requests that name the saved profile, with and without a scene text, next
\* to requests that name none; optimize_prompt is off in all of them.
CharRequests ==
    {Request("", FALSE, FALSE, "hero", Unset, Unset),
     Request("in a cafe", FALSE, FALSE, "hero", Unset, Unset),
     Request("", FALSE, FALSE, "", Unset, Unset),
     Request("sunset over mountains", FALSE, FALSE, "", Unset, Unset)}

NextChar ==
    \/ \E r \in CharRequests : Generate(r, CharJobs)
    \/ \E h \in Handlers : GenAttach(h)
    \/ HandlerStep
    \/ PipelineStep
    \/ \E t \in Threads : UseRawPrompt(t)

SpecChar == Init /\ [][NextChar]_vars

\* ------------------------------------------------------------------ late thread scenario
\* The history scenario after KEEP_LAST + 1 completed jobs, where job 1 had
\* been dispatched twice (the second request's start_next_job found it still
\* queued) and the second thread has not yet run line 125: it holds a slot.
LateThread ==
    /\ jobs = Backlog(KEEP_LAST + 1, << >>)
    /\ issued = KEEP_LAST + 1
    /\ detached = {}
    /\ active_jobs_count = 1
    /\ pipeline_lock = FALSE
    /\ threads = SetToBag({NewThread(1)})
    /\ handlers = EmptyBag
    /\ arrived = 0

SpecLate == LateThread /\ [][NextServed]_vars

\* ------------------------------------------------------------------ underway scenario
\* Two requests have been received one after the other.  Job 1 (prompt to be
\* enhanced, character_consistency on) was admitted and marked 'processing';
\* job 2 (raw prompt) has just been created and its request is about to call
\* start_next_job.  No further request arrives.
OneAdmitted ==
    MarkProcessing(AfterCreate(<< >>, NewJob(<< >>, 1, 1, "a cat", TRUE, TRUE, NoSettings)), 1)

Underway ==
    /\ jobs = AfterCreate(OneAdmitted,
                          NewJob(OneAdmitted, 2, 2, "sunset over mountains", FALSE, FALSE,
                                 NoSettings))
    /\ issued = 2
    /\ detached = {}
    /\ active_jobs_count = 1
    /\ pipeline_lock = FALSE
    /\ threads = SetToBag({[NewThread(1) EXCEPT !.pc = "enhance"]})
    /\ handlers = SetToBag({Handler("sn1", 2, NoCharacter)})
    /\ arrived = 2

NextUnderway ==
    \/ HandlerStep
    \/ PipelineStep
    \/ \E t \in Threads : Enhance(t, {})
    \/ \E t \in Threads : EnhanceFails(t, {})
    \/ \E t \in Threads : UseRawPrompt(t)

SpecUnderway == Underway /\ [][NextUnderway]_vars

\* ------------------------------------------------------------------ isolation scenario
\* The underway scenario where the image pipeline raises for job 1 whenever
\* it is called for it, and every call made for job 2 succeeds.
BackendFailsFor == {1}

NextIsolated ==
    \/ HandlerStep
    \/ \E t \in Threads : GetJob(t)
    \/ \E t \in Threads : ToProcessing(t)
    \/ \E t \in Threads : Enhance(t, {})
    \/ \E t \in Threads : UseRawPrompt(t)
    \/ \E t \in Threads : PreGenerate(t)
    \/ \E t \in Threads : Acquire(t)
    \/ \E t \in Threads : PipeStep(t)
    \/ \E t \in {u \in Threads : u.job_id \notin BackendFailsFor} : PipeReturns(t)
    \/ \E t \in {u \in Threads : u.job_id \in BackendFailsFor} : PipeRaises(t)
    \/ \E t \in Threads : Saving(t)
    \/ \E t \in Threads : Persist(t)
    \/ \E t \in Threads : Except(t)
    \/ \E t \in Threads : Finally(t)
    \/ \E t \in Threads : WorkerStartCheck(t)
    \/ \E t \in Threads : WorkerStartScan(t)

SpecIsolated == Underway /\ [][NextIsolated]_vars

\* a thread or request handler that can take a step takes one
FairSpecIsolated == SpecIsolated /\ WF_vars(NextIsolated)

\* ------------------------------------------------------------------ gate scenario
\* The busy scenario with two free slots: three jobs hold a slot and wait in
\* ollama.generate, more requests arrive than there are slots left.
NextGate ==
    \/ \E r \in CapRequests : Generate(r, GateJobs)
    \/ HandlerStep
    \/ PipelineStep
    \/ \E t \in Threads : Enhance(t, CapStalled)
    \/ \E t \in Threads : EnhanceFails(t, CapStalled)

SpecGate == Served(0, Waiting(MAX_CONCURRENT_JOBS - 2)) /\ [][NextGate]_vars

\* ------------------------------------------------------------------ settings scenario
\* Requests that supply their own settings: values below, inside and above the
\* ranges of lines 70 and 72, a fractional step count, and a value that is not
\* a number.
SuppliedGuidance == {Unset, 5, 75, 250}

SuppliedSteps == {Unset, 90, 127, 2000, NotNumeric}

SettingsRequests ==
    {Request("a cat", FALSE, FALSE, "", g, st) : g \in SuppliedGuidance, st \in SuppliedSteps}

NextSettings ==
    \/ \E r \in SettingsRequests : Generate(r, SettingsJobs)
    \/ HandlerStep

SpecSettings == Init /\ [][NextSettings]_vars

\* ------------------------------------------------------------------ removed record scenario
\* The busy scenario after KEEP_LAST + 1 more jobs have completed.  The oldest
\* of them, job MAX_CONCURRENT_JOBS, had been dispatched twice: its second
\* thread ran lines 125-171 while the first was at work and has not run since,
\* so the record is the one the first thread completed and the second thread
\* holds the last slot.  ollama.generate answers no
\* job in this scenario.
LateWaiting ==
    /\ jobs = Backlog(KEEP_LAST + 1, Waiting(MAX_CONCURRENT_JOBS - 1))
    /\ issued = MAX_CONCURRENT_JOBS + KEEP_LAST
    /\ detached = {}
    /\ active_jobs_count = MAX_CONCURRENT_JOBS
    /\ pipeline_lock = FALSE
    /\ threads = [t \in {[NewThread(id) EXCEPT !.pc = "enhance"] :
                            id \in 1..(MAX_CONCURRENT_JOBS - 1)}
                        \cup {[NewThread(MAX_CONCURRENT_JOBS) EXCEPT !.pc = "pregen"]}
                  |-> 1]
    /\ handlers = EmptyBag
    /\ arrived = 0

NextRemoved ==
    \/ \E r \in CapRequests : Generate(r, RemovedJobs)
    \/ HandlerStep
    \/ PipelineStep

SpecRemoved == LateWaiting /\ [][NextRemoved]_vars

\* ------------------------------------------------------------------ two arrivals scenario
\* The underway scenario a moment earlier: the thread that the first request
\* started for job 1 has not yet run line 125, so job 1 is still 'queued' when
\* the second request calls start_next_job.  Every call made for a job returns
\* or raises, and threads are scheduled fairly.
TwoArrived ==
    /\ jobs = AfterCreate(AfterCreate(<< >>, NewJob(<< >>, 1, 1, "a cat", TRUE, TRUE, NoSettings)),
                          NewJob(AfterCreate(<< >>, NewJob(<< >>, 1, 1, "a cat", TRUE, TRUE,
                                                           NoSettings)),
                                 2, 2, "sunset over mountains", FALSE, FALSE, NoSettings))
    /\ issued = 2
    /\ detached = {}
    /\ active_jobs_count = 1
    /\ pipeline_lock = FALSE
    /\ threads = SetToBag({NewThread(1)})
    /\ handlers = SetToBag({Handler("sn1", 2, NoCharacter)})
    /\ arrived = 2

SpecArrived == TwoArrived /\ [][NextUnderway]_vars

FairSpecArrived == SpecArrived /\ WF_vars(NextUnderway)

\* ------------------------------------------------------------------ locks
\* The with statements that guard the block a thread or request handler is
\* about to run, outermost first.  Taking a lock is a step of its own; the
\* block and the release of its locks are the step that follows.
ReleaseLocksNested == <<"active_jobs_lock", "jobs_lock">>

\* line 297
ReleaseLocks == <<"active_jobs_lock">>

\* lines 310 and 313
ScanLocks == <<"jobs_lock", "active_jobs_lock">>

RespondLocksBackend == <<"pipeline_lock">>

\* line 1739: get_job_info
RespondLocks == <<"jobs_lock">>

\* process_job and the start_next_job call at its end; pipeline_lock (line
\* 201) is taken by Acquire
WorkerLocks(pc) ==
    CASE pc \in {"get", "toProc", "enhance", "pregen", "pipe", "saving", "persist", "except"} ->
             <<"jobs_lock">>
      [] pc = "finally" -> ReleaseLocks
      [] pc = "sn1" -> <<"active_jobs_lock">>
      [] pc = "sn2" -> ScanLocks
      [] OTHER -> << >>

\* /generate after create_job, /job/<job_id> and /queue
HandlerLocks(pc) ==
    CASE pc \in {"attach", "job", "queue1", "queue2", "queue3"} -> <<"jobs_lock">>
      [] pc = "respond" -> RespondLocks
      [] pc = "sn1" -> <<"active_jobs_lock">>
      [] pc = "sn2" -> ScanLocks
      [] OTHER -> << >>

Range(w) == {w[i] : i \in DOMAIN w}

\* the lock that is taken next, "" when all of w are held
Wanted(locks, w) ==
    IF Range(w) \subseteq locks THEN ""
    ELSE w[Min({i \in DOMAIN w : w[i] \notin locks})]

LockFree(l) ==
    /\ \A t \in BagToSet(threads) : l \notin t.locks
    /\ \A h \in BagToSet(handlers) : l \notin h.locks
    /\ l = "pipeline_lock" => ~pipeline_lock

\* a callback is still to come (the pipeline calls it once per step)
CallbackDue(t) ==
    t.pc = "pipe" => t.cbs < MaxCallbacks /\ t.cbs < Job(t).settings.inference_steps

ThreadTakes(t) ==
    /\ Wanted(t.locks, WorkerLocks(t.pc)) # ""
    /\ CallbackDue(t)
    /\ LockFree(Wanted(t.locks, WorkerLocks(t.pc)))
    /\ threads' = (threads (-) SetToBag({t})) (+)
                  SetToBag({[t EXCEPT !.locks = @ \cup {Wanted(t.locks, WorkerLocks(t.pc))}]})
    /\ UNCHANGED <<jobs, detached, active_jobs_count, pipeline_lock, handlers, arrived, issued>>

HandlerTakes(h) ==
    /\ Wanted(h.locks, HandlerLocks(h.pc)) # ""
    /\ LockFree(Wanted(h.locks, HandlerLocks(h.pc)))
    /\ handlers' = (handlers (-) SetToBag({h})) (+)
                   SetToBag({[h EXCEPT !.locks = @ \cup {Wanted(h.locks, HandlerLocks(h.pc))}]})
    /\ UNCHANGED <<jobs, detached, active_jobs_count, pipeline_lock, threads, arrived, issued>>

\* the thread is inside the with statements of the block it is about to run
InBlock(t) == t.locks = Range(WorkerLocks(t.pc))

\* the thread is in no with jobs_lock or with active_jobs_lock block
Outside(t) == t.locks = {}

HandlerInBlock(h) == h.locks = Range(HandlerLocks(h.pc))

\* the underway scenario with every lock operation as a step
NextLocks ==
    \/ \E h \in Handlers : HandlerTakes(h)
    \/ \E h \in Handlers : HandlerInBlock(h) /\ GenStartCheck(h)
    \/ \E h \in Handlers : HandlerInBlock(h) /\ GenStartScan(h)
    \/ \E h \in Handlers : HandlerInBlock(h) /\ GenRespond(h)
    \/ \E t \in Threads : ThreadTakes(t)
    \/ \E t \in Threads : InBlock(t) /\ GetJob(t)
    \/ \E t \in Threads : InBlock(t) /\ ToProcessing(t)
    \/ \E t \in Threads : InBlock(t) /\ Enhance(t, {})
    \/ \E t \in Threads : Outside(t) /\ EnhanceFails(t, {})
    \/ \E t \in Threads : InBlock(t) /\ UseRawPrompt(t)
    \/ \E t \in Threads : InBlock(t) /\ PreGenerate(t)
    \/ \E t \in Threads : Outside(t) /\ Acquire(t)
    \/ \E t \in Threads : InBlock(t) /\ PipeStep(t)
    \/ \E t \in Threads : Outside(t) /\ PipeReturns(t)
    \/ \E t \in Threads : Outside(t) /\ PipeRaises(t)
    \/ \E t \in Threads : InBlock(t) /\ Saving(t)
    \/ \E t \in Threads : InBlock(t) /\ Persist(t)
    \/ \E t \in Threads : Outside(t) /\ PersistFails(t)
    \/ \E t \in Threads : InBlock(t) /\ Except(t)
    \/ \E t \in Threads : InBlock(t) /\ Finally(t)
    \/ \E t \in Threads : InBlock(t) /\ WorkerStartCheck(t)
    \/ \E t \in Threads : InBlock(t) /\ WorkerStartScan(t)

SpecLocks == Underway /\ [][NextLocks]_vars

\* ------------------------------------------------------------------ polling scenario
\* lines 1661-1667: GET /job/<job_id> arrives
PollJob(id, max) ==
    /\ arrived < max
    /\ Cardinality({h \in Handlers : h.pc \in {"job", "jobanswer", "queue1", "queue2", "queue3", "answer"}}) < MaxPolls
    /\ arrived' = arrived + 1
    /\ handlers' = handlers (+) SetToBag({Handler("job", id, NoCharacter)})
    /\ UNCHANGED <<jobs, detached, active_jobs_count, pipeline_lock, threads, issued>>

\* lines 1651-1659: GET /queue arrives
PollQueue(max) ==
    /\ arrived < max
    /\ Cardinality({h \in Handlers : h.pc \in {"job", "jobanswer", "queue1", "queue2", "queue3", "answer"}}) < MaxPolls
    /\ arrived' = arrived + 1
    /\ handlers' = handlers (+) SetToBag({Handler("queue1", 0, NoCharacter)})
    /\ UNCHANGED <<jobs, detached, active_jobs_count, pipeline_lock, threads, issued>>

\* lines 1664-1667: get_job_info; the answer is 404 when there is no record
JobRead(h) ==
    /\ h.pc = "job"
    /\ IF Has(jobs, h.job_id) THEN HandlerMoves(h, "jobanswer") ELSE HandlerEnds(h)
    /\ UNCHANGED <<jobs, detached, active_jobs_count, pipeline_lock, threads, arrived, issued>>

\* lines 111-114 and 1666: the body jsonify writes is the job_info dict
\* itself, as it is when it is serialised
JobBody(h) == JobRef(h.job_id)

\* line 1666: jsonify serialises the answer, with no lock held
JobAnswer(h) ==
    /\ h.pc = "jobanswer"
    /\ HandlerEnds(h)
    /\ UNCHANGED <<jobs, detached, active_jobs_count, pipeline_lock, threads, arrived, issued>>

\* lines 116-119: the list get_all_jobs returns holds the job_info dicts
\* themselves, here by id
get_all_jobs(js) == [i \in DOMAIN js |-> js[i].id]

\* lines 1655-1657: three calls of get_all_jobs, for 'jobs', for 'active_count'
\* and for 'queued_count', each under jobs_lock on its own
QueueRead(h) ==
    /\ h.pc \in {"queue1", "queue2", "queue3"}
    /\ handlers' = (handlers (-) SetToBag({h})) (+) SetToBag({
           CASE h.pc = "queue1" ->
                    [h EXCEPT !.pc = "queue2", !.locks = {}, !.listed = get_all_jobs(jobs)]
             [] h.pc = "queue2" ->
                    [h EXCEPT !.pc = "queue3", !.locks = {},
                              !.active_count = CountStatus(jobs, "processing")]
             [] h.pc = "queue3" ->
                    [h EXCEPT !.pc = "answer", !.locks = {},
                              !.queued_count = CountStatus(jobs, "queued")]})
    /\ UNCHANGED <<jobs, detached, active_jobs_count, pipeline_lock, threads, arrived, issued>>

\* line 1654: the body jsonify writes, with the dicts of the first call as
\* they are when they are serialised
QueueBody(h) ==
    [jobs |-> [i \in DOMAIN h.listed |-> JobRef(h.listed[i])],
     active_count |-> h.active_count,
     queued_count |-> h.queued_count,
     max_concurrent |-> MAX_CONCURRENT_JOBS]

\* line 1654: jsonify serialises the answer, with no lock held
QueueAnswer(h) ==
    /\ h.pc = "answer"
    /\ HandlerEnds(h)
    /\ UNCHANGED <<jobs, detached, active_jobs_count, pipeline_lock, threads, arrived, issued>>

\* MAX_CONCURRENT_JOBS jobs hold a slot.  The threads of all but the last wait
\* in ollama.generate; the last one is inside the pipeline call of line 216,
\* which runs its step callbacks and does not return.
Saturated ==
    /\ jobs = MarkGenerating(
                  MarkOptimized(Waiting(MAX_CONCURRENT_JOBS), MAX_CONCURRENT_JOBS,
                                Optimized("a cat",
                                          <<[text |-> "knight at dusk", bullet |-> FALSE],
                                            [text |-> "soft light", bullet |-> FALSE]>>)),
                  MAX_CONCURRENT_JOBS)
    /\ issued = MAX_CONCURRENT_JOBS
    /\ detached = {}
    /\ active_jobs_count = MAX_CONCURRENT_JOBS
    /\ pipeline_lock = TRUE
    /\ threads = [t \in {[NewThread(id) EXCEPT !.pc = "enhance"] :
                            id \in 1..(MAX_CONCURRENT_JOBS - 1)}
                        \cup {[NewThread(MAX_CONCURRENT_JOBS) EXCEPT
                                  !.pc = "pipe",
                                  !.seed = SeedOf(Rec(Waiting(MAX_CONCURRENT_JOBS),
                                                      MAX_CONCURRENT_JOBS))]}
                  |-> 1]
    /\ handlers = EmptyBag
    /\ arrived = 0

NextPolled ==
    \/ \E r \in CapRequests : LockFree("jobs_lock") /\ Generate(r, PolledRequests)
    \/ \E id \in {1, issued + 1} : PollJob(id, PolledRequests)
    \/ PollQueue(PolledRequests)
    \/ \E h \in Handlers : HandlerTakes(h)
    \/ \E h \in Handlers : HandlerInBlock(h) /\ GenStartCheck(h)
    \/ \E h \in Handlers : HandlerInBlock(h) /\ GenRespond(h)
    \/ \E h \in Handlers : HandlerInBlock(h) /\ JobRead(h)
    \/ \E h \in Handlers : HandlerInBlock(h) /\ JobAnswer(h)
    \/ \E h \in Handlers : HandlerInBlock(h) /\ QueueRead(h)
    \/ \E h \in Handlers : HandlerInBlock(h) /\ QueueAnswer(h)
    \/ \E t \in {u \in Threads : u.pc = "pipe"} : ThreadTakes(t)
    \/ \E t \in Threads : InBlock(t) /\ PipeStep(t)

SpecPolled == Saturated /\ [][NextPolled]_vars

\* a thread or request handler that can take a step takes one
FairSpecPolled == SpecPolled /\ WF_vars(NextPolled)

\* ------------------------------------------------------------------ listing scenario
\* The underway scenario with GET /queue requests.
NextListed ==
    \/ HandlerStep
    \/ PipelineStep
    \/ \E t \in Threads : Enhance(t, {})
    \/ \E t \in Threads : EnhanceFails(t, {})
    \/ \E t \in Threads : UseRawPrompt(t)
    \/ PollQueue(ListedRequests)
    \/ \E h \in Handlers : QueueRead(h)
    \/ \E h \in Handlers : QueueAnswer(h)

SpecListed == Underway /\ [][NextListed]_vars

\* ------------------------------------------------------------------ unlocked reads scenario
\* The block of lines 280-284 statement by statement, as seen by a reader
\* that holds no lock: the thread can be suspended between two assignments.
\* lines 281-282
MarkCompletedStatus(js, id) ==
    Upd(js, id, [Rec(js, id) EXCEPT !.status = "completed", !.stage = "Complete"])

\* lines 283-284
MarkCompletedFile(js, id) ==
    Upd(js, id, [Rec(js, id) EXCEPT !.filename = id, !.step = Rec(js, id).total])

PersistStatus(t) ==
    /\ t.pc = "persist"
    /\ Has(jobs, t.job_id)
    /\ jobs' = MarkCompletedStatus(jobs, t.job_id)
    /\ threads' = (threads (-) SetToBag({t})) (+) SetToBag({[t EXCEPT !.pc = "persist2"]})
    /\ UNCHANGED <<detached, active_jobs_count, pipeline_lock, handlers, arrived, issued>>

PersistFile(t) ==
    /\ t.pc = "persist2"
    /\ "jobs_lock" \in t.locks
    /\ jobs' = MarkCompletedFile(jobs, t.job_id)
    /\ Become(t, [t EXCEPT !.pc = "finally", !.seed = 0])
    /\ UNCHANGED <<detached, active_jobs_count, pipeline_lock, handlers, arrived, issued>>

\* job 1 is 'processing', its thread in ollama.generate, and nothing else
Alone ==
    /\ jobs = OneAdmitted
    /\ issued = 1
    /\ detached = {}
    /\ active_jobs_count = 1
    /\ pipeline_lock = FALSE
    /\ threads = SetToBag({[NewThread(1) EXCEPT !.pc = "enhance"]})
    /\ handlers = EmptyBag
    /\ arrived = 0

NextUnlocked ==
    \/ PollJob(1, UnlockedRequests)
    \/ \E h \in Handlers : HandlerTakes(h)
    \/ \E h \in Handlers : HandlerInBlock(h) /\ JobRead(h)
    \/ \E h \in Handlers : HandlerInBlock(h) /\ JobAnswer(h)
    \/ \E t \in Threads : ThreadTakes(t)
    \/ \E t \in Threads : InBlock(t) /\ Enhance(t, {})
    \/ \E t \in Threads : Outside(t) /\ EnhanceFails(t, {})
    \/ \E t \in Threads : InBlock(t) /\ PreGenerate(t)
    \/ \E t \in Threads : Outside(t) /\ Acquire(t)
    \/ \E t \in Threads : InBlock(t) /\ PipeStep(t)
    \/ \E t \in Threads : Outside(t) /\ PipeReturns(t)
    \/ \E t \in Threads : Outside(t) /\ PipeRaises(t)
    \/ \E t \in Threads : InBlock(t) /\ Saving(t)
    \/ \E t \in Threads : InBlock(t) /\ PersistStatus(t)
    \/ \E t \in Threads : PersistFile(t)
    \/ \E t \in Threads : Outside(t) /\ PersistFails(t)
    \/ \E t \in Threads : InBlock(t) /\ Except(t)
    \/ \E t \in Threads : InBlock(t) /\ Finally(t)
    \/ \E t \in Threads : InBlock(t) /\ WorkerStartCheck(t)
    \/ \E t \in Threads : InBlock(t) /\ WorkerStartScan(t)

SpecUnlocked == Alone /\ [][NextUnlocked]_vars

\* ------------------------------------------------------------------ profile scenario
\* Requests that name a saved profile (one that saves a guidance scale only,
\* one that saves both settings, out of range), a profile that does not exist
\* or none, with either consistency flag and with or without settings of
\* their own.
ProfileNames == {"hero", "titan", "ghost", ""}

ProfileRequests ==
    {Request("in a cafe", FALSE, c, cid, g, st) :
        c \in BOOLEAN, cid \in ProfileNames, g \in {Unset, 75}, st \in {Unset, 2000}}

NextProfile ==
    \/ \E r \in ProfileRequests : Generate(r, ProfileJobs)
    \/ \E h \in Handlers : GenAttach(h)
    \/ HandlerStep

SpecProfile == Init /\ [][NextProfile]_vars

\* ------------------------------------------------------------------ drawn ids scenario
\* line 61: job_id is the first eight hex digits of a uuid4, one of 16^8
\* values drawn at random; create_job does not look the value up in jobs.  The
\* scenario draws the ids from a space of MaxIds values.
DrawnIds == 1..MaxIds

NextIds ==
    \/ \E r \in Requests : \E job_id \in DrawnIds : Create(r, IdJobs, job_id)
    \/ HandlerStep

SpecIds == Init /\ [][NextIds]_vars

\* ------------------------------------------------------------------ claims
StatusOf(js, id) == js[Idx(js, id)].status

Running == {t \in Threads : t.pc # "returned"}

\* C1: in every reachable state at most MAX_CONCURRENT_JOBS job records have
\* status 'processing'.
C1_ProcessingBounded == CountStatus(jobs, "processing") <= MAX_CONCURRENT_JOBS

\* C1 witness: every slot is taken by a processing job, one of them admitted
\* after the thread of a finished job gave its slot back.
C1_Witness ==
    /\ CountStatus(jobs, "processing") = MAX_CONCURRENT_JOBS
    /\ CountStatus(jobs, "completed") + CountStatus(jobs, "error") > 0
    /\ active_jobs_count = MAX_CONCURRENT_JOBS

AllowedEdges ==
    {<<"queued", "processing">>, <<"processing", "completed">>, <<"processing", "error">>}

\* C2 (as claimed): a step changes the status of a stored record only along
\* queued -> processing, processing -> completed or processing -> error.
C2_OnlyAllowedEdges ==
    [][\A i \in DOMAIN jobs :
          Has(jobs', jobs[i].id) =>
              \/ StatusOf(jobs', jobs[i].id) = jobs[i].status
              \/ <<jobs[i].status, StatusOf(jobs', jobs[i].id)>> \in AllowedEdges]_vars

\* C3 (as claimed): no two process_job threads that have not ended were started
\* for the same job id.
C3_OneThreadPerJob ==
    \A t \in Running :
        /\ CopiesIn(t, threads) = 1
        /\ \A u \in Running : u.job_id = t.job_id => u = t

\* C6 (as claimed): the queue positions of the queued records are 0, 1, ...,
\* k-1 in the order of submission.
C6_QueuePositionsAreRanks ==
    \A i \in QueuedIdx(jobs) :
        jobs[i].queue_position =
            Cardinality({k \in QueuedIdx(jobs) : jobs[k].created_at < jobs[i].created_at})

\* C10: a job that was submitted before a job that is no longer queued is not
\* queued either, and a thread that has not yet marked its job was started
\* for the earliest submitted queued job.
C10_Fifo ==
    /\ \A i, k \in DOMAIN jobs :
          jobs[i].created_at < jobs[k].created_at /\ jobs[i].status = "queued"
              => jobs[k].status = "queued"
    /\ \A t \in Threads :
          t.pc \in {"get", "toProc"} /\ Has(jobs, t.job_id) /\ StatusOf(jobs, t.job_id) = "queued"
              => \A i \in QueuedIdx(jobs) :
                     jobs[Idx(jobs, t.job_id)].created_at <= jobs[i].created_at

\* C10 witness: the earlier of two jobs is processing and a thread has been
\* started for the later one, which is still queued.
C10_Witness ==
    \E i, k \in DOMAIN jobs :
        /\ jobs[i].created_at < jobs[k].created_at
        /\ jobs[i].status = "processing"
        /\ jobs[k].status = "queued"
        /\ \E t \in Threads : t.job_id = jobs[k].id /\ t.pc \in {"get", "toProc"}

TerminalIds(js) == {js[i].id : i \in {k \in DOMAIN js : Terminal(js[k])}}

\* C7 (as claimed): the store never holds more than KEEP_LAST records whose
\* status is 'completed' or 'error'.
C7_AtMostKeepLastTerminal == Cardinality(TerminalIds(jobs)) <= KEEP_LAST

\* C8: a step that removes ids from the store is a create_job (it adds a new
\* id) and removes only records that were 'completed' or 'error' before it, so
\* never a queued or processing record nor the record it creates.
C8_OnlySweepRemoves ==
    [][Ids(jobs) \ Ids(jobs') # {} =>
          /\ issued' = issued + 1
          /\ issued' \in Ids(jobs')
          /\ Ids(jobs) \ Ids(jobs') \subseteq TerminalIds(jobs)
          /\ \A i \in DOMAIN jobs : Pending(jobs[i]) => jobs[i].id \in Ids(jobs')]_vars

\* C8 witness: the sweep has removed a record while an older record, still
\* processing, stayed in the store.
C8_Witness ==
    /\ detached # {}
    /\ \E i \in DOMAIN jobs :
          /\ jobs[i].status = "processing"
          /\ \E d \in detached : jobs[i].created_at < d.created_at

\* C9: a create_job that finds more than KEEP_LAST terminal records leaves the
\* KEEP_LAST of them created last: what it removes are terminal records, and
\* each of them was created before every terminal record it keeps.
C9_SweepKeepsNewest ==
    [][issued' = issued + 1 /\ Cardinality(TerminalIds(jobs)) > KEEP_LAST =>
          /\ Cardinality(TerminalIds(jobs')) = KEEP_LAST
          /\ TerminalIds(jobs') \subseteq TerminalIds(jobs)
          /\ \A i \in DOMAIN jobs, k \in DOMAIN jobs' :
                (Terminal(jobs[i]) /\ jobs[i].id \notin Ids(jobs') /\ Terminal(jobs'[k]))
                    => jobs[i].created_at < jobs'[k].created_at]_vars

\* C9 witness: after a sweep the store holds exactly KEEP_LAST terminal
\* records, all created after the record that was removed.
C9_Witness ==
    /\ detached # {}
    /\ Cardinality(TerminalIds(jobs)) = KEEP_LAST
    /\ \A d \in detached : \A i \in DOMAIN jobs :
          Terminal(jobs[i]) => d.created_at < jobs[i].created_at

NoneTerminalYet == \A i \in DOMAIN jobs : Pending(jobs[i])

\* C4 (as claimed): once MAX_CONCURRENT_JOBS + 1 requests have been served from
\* an empty store, no job is terminal yet and every started thread has marked
\* its job, MAX_CONCURRENT_JOBS records are processing and one is queued, at
\* queue position 0.
C4_FiveProcessingOneQueued ==
    (/\ arrived = MAX_CONCURRENT_JOBS + 1
     /\ handlers = EmptyBag
     /\ NoneTerminalYet
     /\ \A t \in Threads : t.pc \notin {"get", "toProc"})
    => /\ CountStatus(jobs, "processing") = MAX_CONCURRENT_JOBS
       /\ CountStatus(jobs, "queued") = 1
       /\ \A i \in QueuedIdx(jobs) : jobs[i].queue_position = 0

Queued(id) == Has(jobs, id) /\ StatusOf(jobs, id) = "queued"

\* C5: whenever a thread has written a terminal status and is about to give
\* its slot back while records are queued, the first queued record becomes
\* 'processing', whether or not a further request arrives.
C5_FreedSlotIsReused ==
    \A id \in 1..(MAX_CONCURRENT_JOBS + BusyJobs) :
        ((\E t \in Threads : t.pc = "finally") /\ Queued(id) /\ id = FirstQueued(jobs))
            ~> (Has(jobs, id) /\ StatusOf(jobs, id) = "processing")

\* C5 witness: all requests have been served, a job is terminal and a job
\* submitted after it, which had to wait for a slot, is processing.
C5_Witness ==
    /\ handlers = EmptyBag
    /\ arrived = BusyJobs
    /\ \E d, i \in DOMAIN jobs :
          /\ Terminal(jobs[d])
          /\ jobs[i].status = "processing"
          /\ jobs[i].queue_position >= MAX_CONCURRENT_JOBS

\* the threads, counted with their copies, that are inside the call of pipe
InPipe ==
    BagCardinality([t \in {u \in Threads : u.pc = "pipe"} |-> CopiesIn(t, threads)])

\* C11: in every reachable state at most one thread is inside the call of
\* pipe (lines 216-227), however many jobs are processing.
C11_OneInPipeline == InPipe <= 1

\* C11 witness: two jobs are processing; the thread of one is inside pipe and
\* the thread of the other waits for pipeline_lock.
C11_Witness ==
    /\ CountStatus(jobs, "processing") = 2
    /\ \E t, u \in Threads :
          /\ t.pc = "pipe"
          /\ u.pc = "acquire"
          /\ u.job_id # t.job_id

\* the threads of job id that have not ended
ThreadsOf(id) == {t \in Running : t.job_id = id}

\* C12 (as claimed): a record for which a stage raised (the handler of line
\* 289 stored the exception's text) is in status 'error' with that text once
\* no thread works on it any more, and the thread that raised does not hold
\* pipeline_lock.
C12_RaisedEndsInError ==
    /\ \A i \in DOMAIN jobs :
          jobs[i].error # NoError /\ ThreadsOf(jobs[i].id) = {}
              => jobs[i].status = "error"
    /\ (\E t \in Threads : t.pc = "except") /\ InPipe = 0 => ~pipeline_lock

\* C15 (as claimed): no record is in status 'error' because the call of
\* ollama.generate raised.
C15_EnhancerFailureRecovered ==
    \A i \in DOMAIN jobs :
        ~(jobs[i].status = "error" /\ jobs[i].error = "ollama unavailable")

\* the prompts /generate hands to create_job for an empty request text
EmptyTextPrompts == {""} \cup {generate_character_prompt(c, "") : c \in DOMAIN Characters}

\* C16 (as claimed): no record is created for a request whose text is empty,
\* whether or not it names a character profile.
C16_EmptyTextRejected ==
    \A i \in DOMAIN jobs : jobs[i].prompt \notin EmptyTextPrompts

\* C18 (as claimed): a thread inside pipe for a job that was submitted with
\* an existing character profile (the handler is about to attach it, or it
\* is attached) uses the profile's seed.
C18_CharacterSeedUsed ==
    \A t \in Threads :
        t.pc = "pipe" =>
            /\ \A h \in Handlers :
                  h.job_id = t.job_id /\ h.pc = "attach" => t.seed = h.character.seed
            /\ Job(t).character # NoCharacter => t.seed = Job(t).character.seed

\* C14 (as claimed): every thread gives its slot back before it ends, so
\* when no process_job thread is left active_jobs_count is 0.
C14_NoSlotLost == Running = {} => active_jobs_count = 0

\* the threads that hold the seed chosen in lines 203-212
Seeded == {t \in Threads : t.pc \in {"pipe", "saving", "persist"}}

C19_FixedSeedUsed ==
    \A t \in Seeded :
        Job(t).character = NoCharacter /\ Job(t).character_consistency
            => t.seed = FIXED_SEED

\* C19 witness: the thread of such a job is inside pipe.
C19_Witness ==
    \E t \in Seeded :
        /\ t.pc = "pipe"
        /\ Job(t).character = NoCharacter
        /\ Job(t).character_consistency
        /\ RANDOM_SEED + (Hash(t.job_id) % 10000) # FIXED_SEED

\* C20: for a record with optimize_prompt off, ollama.generate is not called
\* (no answer and no failure of it reaches the record or a thread of the
\* job) and optimized_prompt, once set, is the record's prompt.
C20_RawPromptKept ==
    /\ \A i \in DOMAIN jobs :
          ~jobs[i].optimize_prompt =>
              /\ jobs[i].optimized_prompt \in {NoLines, <<jobs[i].prompt>>}
              /\ jobs[i].error # "ollama unavailable"
    /\ \A t \in Threads :
          ~Job(t).optimize_prompt => t.exc # "ollama unavailable"

\* C20 witness: such a job has completed with its prompt as optimized_prompt.
C20_Witness ==
    \E i \in DOMAIN jobs :
        /\ ~jobs[i].optimize_prompt
        /\ jobs[i].status = "completed"
        /\ jobs[i].optimized_prompt = <<jobs[i].prompt>>

\* C13: when the image pipeline fails for job 1 while job 2 is processing,
\* the steps in which a thread of job 1 raises and records the failure leave
\* the record of job 2 as it is, job 2 is never marked 'error', and job 2
\* ends 'completed'.
C13_FailureIsolated ==
    /\ [][(\E t \in Threads : t.job_id = 1 /\ (PipeRaises(t) \/ Except(t)))
             => Rec(jobs', 2) = Rec(jobs, 2)]_vars
    /\ [](Rec(jobs, 2).status # "error" /\ Rec(jobs, 2).error = NoError)
    /\ <>[](Rec(jobs, 2).status = "completed")

\* C13 witness: the pipeline has raised for job 1 while job 2 is processing
\* and a thread of job 2 waits for pipeline_lock.
C13_Witness ==
    /\ Rec(jobs, 2).status = "processing"
    /\ \E t, u \in Threads :
          /\ t.job_id = 1 /\ t.pc = "except" /\ t.exc = "pipeline failed"
          /\ u.job_id = 2 /\ u.pc = "acquire"

Supplied(r) == r.guidance_scale # Unset \/ r.inference_steps # Unset

Numeric(r) == r.guidance_scale # NotNumeric /\ r.inference_steps # NotNumeric

Created == jobs'[Len(jobs')]

Accepted == issued' = issued + 1 /\ Has(jobs', issued')

InRange(job) ==
    /\ job.settings.inference_steps \in 10..150
    /\ job.settings.guidance_scale \in 10..200
    /\ job.total = job.settings.inference_steps

\* C21 as stated: every request that supplies numbers as settings is accepted;
\* the stored step count lies in 10..150 and the stored guidance scale in
\* 1.0..20.0; a supplied value inside its range is stored as supplied; total
\* is the stored step count.
C21_SettingsClamped ==
    [][\A r \in SettingsRequests :
          (Supplied(r) /\ Numeric(r) /\ Generate(r, SettingsJobs)) =>
              /\ Accepted
              /\ InRange(Created)
              /\ (r.guidance_scale \in 10..200 =>
                      Created.settings.guidance_scale = r.guidance_scale)
              /\ (r.inference_steps \in 100..1500 =>
                      Created.settings.inference_steps * 10 = r.inference_steps)]_vars

\* C21 amended: a request whose supplied settings are numbers is accepted; the
\* stored step count is the supplied one cut to an integer and then clamped to
\* 10..150, the stored guidance scale is the supplied one clamped to 1.0..20.0,
\* and total is the stored step count; a request with a setting that is not a
\* number creates no record.
C21_NumericSettingsClamped ==
    [][\A r \in SettingsRequests :
          (Supplied(r) /\ Generate(r, SettingsJobs)) =>
              IF Numeric(r)
              THEN /\ Accepted
                   /\ InRange(Created)
                   /\ (r.guidance_scale \in 10..200 =>
                           Created.settings.guidance_scale = r.guidance_scale)
                   /\ (r.guidance_scale # Unset /\ r.guidance_scale < 10 =>
                           Created.settings.guidance_scale = 10)
                   /\ (r.guidance_scale > 200 =>
                           Created.settings.guidance_scale = 200)
                   /\ (r.inference_steps \in 100..1509 =>
                           Created.settings.inference_steps = r.inference_steps \div 10)
                   /\ (r.inference_steps # Unset /\ r.inference_steps < 100 =>
                           Created.settings.inference_steps = 10)
                   /\ (r.inference_steps > 1509 =>
                           Created.settings.inference_steps = 150)
              ELSE jobs' = jobs /\ issued' = issued]_vars

\* two records were created from supplied settings: one clamped at both upper
\* ends, one clamped at the lower end with a step count cut from 12.7 to 12
C21_Witness ==
    /\ \E i \in 1..Len(jobs) :
           jobs[i].settings = [guidance_scale |-> 200, inference_steps |-> 150]
    /\ \E i \in 1..Len(jobs) :
           jobs[i].settings = [guidance_scale |-> 10, inference_steps |-> 12]

\* C22: a progress callback for an id that is not in the store changes nothing;
\* for an id in the store it changes the step and stage of that record and
\* nothing else: no record is added, removed or moved, no other record and no
\* other field changes.
C22_ProgressFrame ==
    [][\A t \in Threads :
          PipeStep(t) =>
              /\ UNCHANGED <<detached, active_jobs_count, pipeline_lock>>
              /\ IF ~Has(jobs, t.job_id) THEN jobs' = jobs
                 ELSE /\ DOMAIN jobs' = DOMAIN jobs
                      /\ \A i \in DOMAIN jobs :
                             IF jobs[i].id = t.job_id
                             THEN /\ jobs'[i].step = t.cbs + 1
                                  /\ jobs'[i].stage = "Generating"
                                  /\ [jobs'[i] EXCEPT !.step = jobs[i].step,
                                                      !.stage = jobs[i].stage] = jobs[i]
                             ELSE jobs'[i] = jobs[i]]_vars

\* a callback has run for a job whose record had been removed: the removed
\* record still shows the step that line 194 gave it
C22_Witness ==
    \E t \in Threads :
        /\ t.pc = "pipe" /\ t.cbs = 1
        /\ ~Has(jobs, t.job_id)
        /\ \E d \in detached : d.id = t.job_id /\ d.step = 0
        /\ \E i \in DOMAIN jobs : jobs[i].status = "queued"

\* C23: filename, optimized_prompt and error of a record change only in a step
\* that takes the record from a status that is not terminal to a terminal one,
\* filename only with 'completed' and error only with 'error', and only from
\* the value the record was created with.
C23_ResultFieldsWrittenOnceAtEnd ==
    [][\A i \in DOMAIN jobs : \A k \in DOMAIN jobs' :
          jobs'[k].id = jobs[i].id =>
              /\ (jobs'[k].filename # jobs[i].filename =>
                      /\ jobs[i].filename = NoFile
                      /\ ~Terminal(jobs[i]) /\ jobs'[k].status = "completed")
              /\ (jobs'[k].optimized_prompt # jobs[i].optimized_prompt =>
                      /\ jobs[i].optimized_prompt = NoLines
                      /\ ~Terminal(jobs[i]) /\ Terminal(jobs'[k]))
              /\ (jobs'[k].error # jobs[i].error =>
                      /\ jobs[i].error = NoError
                      /\ ~Terminal(jobs[i]) /\ jobs'[k].status = "error")]_vars

\* C24: when every call made for a job returns or raises and threads are
\* scheduled fairly, every job record reaches 'completed' or 'error': from some
\* point on every record is terminal and no thread is left.
C24_EveryJobEnds ==
    <>[](/\ \A i \in DOMAIN jobs : Terminal(jobs[i])
         /\ threads = EmptyBag)

\* both jobs have ended, one of them in 'error', after job 1 had been
\* dispatched twice
C24_Witness ==
    /\ Len(jobs) = 2
    /\ \A i \in DOMAIN jobs : Terminal(jobs[i])
    /\ \E i \in DOMAIN jobs : jobs[i].status = "error"
    /\ threads = EmptyBag
    /\ active_jobs_count = 0

Agents == {<<"thread", t>> : t \in Threads} \cup {<<"handler", h>> : h \in Handlers}

Holds(a) ==
    a[2].locks \cup (IF a[1] = "thread" /\ a[2].pc = "pipe" THEN {"pipeline_lock"} ELSE {})

Wants(a) ==
    IF a[1] = "handler" THEN Wanted(a[2].locks, HandlerLocks(a[2].pc))
    ELSE IF a[2].pc = "acquire" THEN "pipeline_lock"
    ELSE IF CallbackDue(a[2]) THEN Wanted(a[2].locks, WorkerLocks(a[2].pc))
    ELSE ""

Rank(l) == CASE l = "pipeline_lock" -> 1 [] l = "jobs_lock" -> 2 [] l = "active_jobs_lock" -> 3

\* C25: a thread or handler asks for a lock only while the locks it holds come
\* earlier in the order pipeline_lock, jobs_lock, active_jobs_lock, and there
\* is no set of threads and handlers each of which asks for a lock that another
\* of the set holds.
C25_NoLockCycle ==
    /\ \A a \in Agents : Wants(a) # "" => \A l \in Holds(a) : Rank(l) < Rank(Wants(a))
    /\ ~\E S \in SUBSET Agents :
           /\ S # {}
           /\ \A a \in S : Wants(a) # "" /\ \E b \in S \ {a} : Wants(a) \in Holds(b)

\* a callback holds jobs_lock inside pipeline_lock while a request handler that
\* holds nothing asks for jobs_lock and another thread is past line 125
C25_Witness ==
    /\ \E t \in Threads : t.pc = "pipe" /\ "jobs_lock" \in t.locks
    /\ \E h \in Handlers : h.locks = {} /\ Wanted(h.locks, HandlerLocks(h.pc)) = "jobs_lock"
    /\ \E t \in Threads : t.pc = "acquire"

\* C26: a handler of /generate, /job/<job_id> or /queue never holds or asks for
\* pipeline_lock, and while MAX_CONCURRENT_JOBS jobs are 'processing' and one
\* thread stays inside the pipeline call, every request that arrives is
\* answered.
C26_RequestsNeverWaitForJobs ==
    /\ [](\A h \in Handlers :
              /\ "pipeline_lock" \notin h.locks
              /\ Wanted(h.locks, HandlerLocks(h.pc)) # "pipeline_lock")
    /\ <>[](handlers = EmptyBag)

\* all requests of the scenario have been answered, one of them a /generate
\* whose job waits in the queue, while the pipeline call has not returned
C26_Witness ==
    /\ arrived = PolledRequests
    /\ handlers = EmptyBag
    /\ pipeline_lock
    /\ CountStatus(jobs, "processing") = MAX_CONCURRENT_JOBS
    /\ CountStatus(jobs, "queued") >= 1
    /\ \E t \in Threads : t.pc = "pipe" /\ t.cbs = MaxCallbacks

CreateRan == issued' = issued + 1

NewIds == Ids(jobs') \ Ids(jobs)

\* C27: a create_job call adds exactly one record to the store, under an id
\* that was not in it; the record is 'queued' with step 0, no filename, no
\* optimized prompt and no error, and its queue_position is the number of
\* records that were 'queued' or 'processing' before the call; every record
\* that was in the store is unchanged or has been removed by the sweep.
C27_CreateInsertsOneQueuedRecord ==
    [][CreateRan =>
          /\ Cardinality(NewIds) = 1
          /\ \A id \in NewIds :
                 /\ Rec(jobs', id).status = "queued"
                 /\ Rec(jobs', id).step = 0
                 /\ Rec(jobs', id).filename = NoFile
                 /\ Rec(jobs', id).optimized_prompt = NoLines
                 /\ Rec(jobs', id).error = NoError
                 /\ Rec(jobs', id).queue_position =
                        Cardinality({i \in DOMAIN jobs : Pending(jobs[i])})
          /\ \A i \in DOMAIN jobs :
                 Has(jobs', jobs[i].id) => Rec(jobs', jobs[i].id) = jobs[i]]_vars

\* C28: the id that a create_job call returns is the id of no record in the
\* store, of no removed record and of no request in progress, and the call
\* leaves every record that stays in the store as it was.
C28_IdsNeverReused ==
    [][CreateRan =>
          /\ \A h \in BagToSet(handlers') \ BagToSet(handlers) :
                 /\ ~Has(jobs, h.job_id)
                 /\ \A d \in detached : d.id # h.job_id
                 /\ \A g \in BagToSet(handlers) : g.job_id # h.job_id
          /\ \A i \in DOMAIN jobs :
                 Has(jobs', jobs[i].id) => Rec(jobs', jobs[i].id) = jobs[i]]_vars

\* C29: when a start_next_job call has started a thread for a job and released
\* jobs_lock, the record of that job is no longer 'queued'.
C29_SelectedRecordLeavesQueue ==
    [][\A t \in BagToSet(threads') :
          (t.pc = "get" /\ CopiesIn(t, threads') > CopiesIn(t, threads)) =>
              Has(jobs', t.job_id) /\ StatusOf(jobs', t.job_id) # "queued"]_vars

\* the threads that were started and have not run line 298: each holds a slot
SlotHolders == {t \in Threads : t.pc \notin {"sn1", "sn2"}}

RECURSIVE Copies(_)
Copies(S) ==
    IF S = {} THEN 0
    ELSE LET t == CHOOSE x \in S : TRUE
         IN  CopiesIn(t, threads) + Copies(S \ {t})

\* C30: active_jobs_count lies in 0..MAX_CONCURRENT_JOBS, is the number of
\* threads that were started and have not decremented it, and is at least the
\* number of 'processing' records.
C30_CounterCountsSlotHolders ==
    /\ active_jobs_count \in 0..MAX_CONCURRENT_JOBS
    /\ active_jobs_count = Copies(SlotHolders)
    /\ active_jobs_count >= CountStatus(jobs, "processing")

\* every slot is held, one of them by a thread that has not yet marked its
\* job, after another thread has given its slot back
C30_Witness ==
    /\ active_jobs_count = MAX_CONCURRENT_JOBS
    /\ CountStatus(jobs, "processing") < MAX_CONCURRENT_JOBS
    /\ \E t \in Threads : t.pc = "get"
    /\ \E i \in DOMAIN jobs : Terminal(jobs[i])

\* what a start_next_job call may do to the threads other than the caller
NothingStarted(before) == threads' = before

OneStarted(before) ==
    \E i \in QueuedIdx(jobs) : threads' = before (+) SetToBag({NewThread(jobs[i].id)})

CallFrame(before) ==
    /\ jobs' = jobs
    /\ IF QueuedIdx(jobs) = {} \/ active_jobs_count >= MAX_CONCURRENT_JOBS
       THEN active_jobs_count' = active_jobs_count /\ NothingStarted(before)
       ELSE active_jobs_count' = active_jobs_count + 1 /\ OneStarted(before)

\* C31: a start_next_job call that finds no 'queued' record or finds
\* active_jobs_count at MAX_CONCURRENT_JOBS changes neither the counter nor a
\* record and starts no thread; a call that starts a thread starts exactly
\* one, for a 'queued' job, and adds exactly one to the counter.
C31_StartNextJobFrame ==
    [][/\ \A h \in Handlers :
              /\ GenStartCheck(h) => UNCHANGED <<jobs, active_jobs_count, threads>>
              /\ GenStartScan(h) => CallFrame(threads)
       /\ \A t \in Threads :
              /\ WorkerStartCheck(t) =>
                     /\ UNCHANGED <<jobs, active_jobs_count>>
                     /\ BagCardinality(threads') <= BagCardinality(threads)
              /\ WorkerStartScan(t) => CallFrame(threads (-) SetToBag({t}))]_vars

\* a request's call has returned without starting a thread for its job, which
\* waits because every slot is held, and another call has started a thread
C31_Witness ==
    /\ active_jobs_count = MAX_CONCURRENT_JOBS
    /\ \E h \in Handlers : h.pc = "respond" /\ Has(jobs, h.job_id) /\ Queued(h.job_id)
    /\ \E t \in Threads : t.job_id > MAX_CONCURRENT_JOBS - 2

\* the queue positions of the 'queued' records of js are their 0-based ranks
\* in the order of submission
Ranked(js) ==
    \A i \in QueuedIdx(js) :
        js[i].queue_position =
            Cardinality({k \in QueuedIdx(js) : js[k].created_at < js[i].created_at})

\* C32: in the state that follows a record's transition to 'processing', the
\* queue_position of every record that is still 'queued' is its 0-based rank
\* among the 'queued' records in the order of submission.
C32_RanksAfterTransition ==
    [][\A t \in Threads : ToProcessing(t) => Ranked(jobs')]_vars

\* a thread has just marked its job and two jobs wait at positions 0 and 1
C32_Witness ==
    /\ \E t \in Threads : t.pc = "enhance" /\ t.job_id > MAX_CONCURRENT_JOBS - 2
    /\ \E i, k \in QueuedIdx(jobs) :
          /\ jobs[i].created_at < jobs[k].created_at
          /\ jobs[i].queue_position = 0
          /\ jobs[k].queue_position = 1

\* C33 (as claimed): a record's step and stage change only in a step in which
\* the record is 'processing' before or after it: never while it stays
\* 'queued', and never once it is 'completed' or 'error'.
C33_ProgressOnlyWhileProcessing ==
    [][\A id \in Ids(jobs) \cap Ids(jobs') :
          (Rec(jobs', id).step # Rec(jobs, id).step
              \/ Rec(jobs', id).stage # Rec(jobs, id).stage)
          => (StatusOf(jobs, id) = "processing" \/ StatusOf(jobs', id) = "processing")]_vars

\* the blocks that sit around ollama.generate, the pipeline call and the
\* writing of the files, and the blocks that read or change the counter
CallSites == {"enhance", "pipe", "persist"}

CounterBlocks == {"finally", "sn1", "sn2"}

LockStep == (\E t \in Threads : ThreadTakes(t)) \/ (\E h \in Handlers : HandlerTakes(h))

\* C34: active_jobs_lock is held only around one test, increment or decrement
\* of the counter and pipeline_lock exactly while one thread is in the
\* pipeline call; a thread reaches ollama.generate, the pipeline call and the
\* writing of the files holding neither jobs_lock nor active_jobs_lock, holds
\* neither when such a call returns or raises, and holds jobs_lock during the
\* pipeline call only inside a callback that is due; no thread at the
\* enhancement or at the writing of the files is the holder of pipeline_lock.
C34_LocksHeldBriefly ==
    /\ [](/\ \A t \in Threads :
                /\ "active_jobs_lock" \in t.locks => t.pc \in CounterBlocks
                /\ t.locks # {} => t.locks \subseteq Range(WorkerLocks(t.pc))
                /\ t.pc = "pipe" /\ t.locks # {} => CallbackDue(t)
          /\ \A h \in Handlers : "active_jobs_lock" \in h.locks => h.pc \in {"sn1", "sn2"}
          /\ pipeline_lock <=> \E t \in Threads : t.pc = "pipe"
          /\ \A t \in Threads : t.pc = "pipe" => CopiesIn(t, threads) = 1
          /\ Cardinality({t \in Threads : t.pc = "pipe"}) <= 1)
    /\ [][/\ \A t \in Threads :
                (EnhanceFails(t, {}) \/ PipeReturns(t) \/ PipeRaises(t) \/ PersistFails(t))
                => t.locks = {}
          /\ ~LockStep =>
                \A u \in BagToSet(threads') :
                    CopiesIn(u, threads') > CopiesIn(u, threads) => u.locks = {}]_vars

\* one thread is inside the pipeline call between two callbacks, holding only
\* pipeline_lock, while another has written its prompt and holds nothing
C34_Witness ==
    /\ pipeline_lock
    /\ \E t \in Threads : t.pc = "pipe" /\ t.locks = {} /\ t.cbs = MaxCallbacks
    /\ \E t \in Threads : t.pc \in {"enhance", "persist"} /\ t.locks = {}

\* the jobs whose record is 'processing' and that a thread at one of pcs works on
JobsAt(pcs) ==
    {t.job_id : t \in {u \in Threads : u.pc \in pcs /\ Has(jobs, u.job_id)
                                       /\ StatusOf(jobs, u.job_id) = "processing"}}

\* C35: the parallelism of the design is reached and not exceeded: the jobs
\* that are 'processing' with a thread at work number at most
\* MAX_CONCURRENT_JOBS and at most one of them is inside the pipeline call,
\* whatever the number of jobs at the enhancement or at the writing of the
\* files; the witness is a reachable state where MAX_CONCURRENT_JOBS distinct
\* records are 'processing', one job is inside the pipeline call and other
\* jobs are at the enhancement at the same time.
C35_ParallelismWithinLimits ==
    /\ Cardinality(JobsAt({"enhance", "pregen", "acquire", "pipe", "saving", "persist"}))
           <= MAX_CONCURRENT_JOBS
    /\ Cardinality(JobsAt({"pipe"})) <= 1
    /\ JobsAt({"pipe"}) # {} => pipeline_lock
    /\ Cardinality(JobsAt({"enhance", "persist"})) <= MAX_CONCURRENT_JOBS

C35_Witness ==
    /\ Cardinality({id \in Ids(jobs) : StatusOf(jobs, id) = "processing"}) = MAX_CONCURRENT_JOBS
    /\ Cardinality(JobsAt({"pipe"})) = 1
    /\ Cardinality(JobsAt({"enhance", "persist"}) \ JobsAt({"pipe"})) = MAX_CONCURRENT_JOBS - 1
    /\ arrived >= 2

CountIn(body, status) ==
    Cardinality({i \in DOMAIN body.jobs : body.jobs[i].status = status})

\* C36 (as claimed): in every answer of /queue, active_count and queued_count
\* are the numbers of 'processing' and of 'queued' records in the jobs list
\* of the same answer.
C36_QueueAnswerConsistent ==
    [][\A h \in Handlers :
          QueueAnswer(h) =>
              /\ QueueBody(h).active_count = CountIn(QueueBody(h), "processing")
              /\ QueueBody(h).queued_count = CountIn(QueueBody(h), "queued")]_vars

\* C37 (as claimed): a 'completed' record has a filename, no error and step =
\* total; an 'error' record has an error; a record with a filename is
\* 'completed'.
C37_TerminalFieldsAgree ==
    \A i \in DOMAIN jobs :
        /\ jobs[i].status = "completed" =>
               /\ jobs[i].filename # NoFile
               /\ jobs[i].error = NoError
               /\ jobs[i].step = jobs[i].total
        /\ jobs[i].status = "error" => jobs[i].error # NoError
        /\ jobs[i].filename # NoFile => jobs[i].status = "completed"

\* C38 (as claimed): a record is written only by a thread or handler that
\* holds jobs_lock, and the record a /job/<job_id> answer is serialised from
\* is never in the middle of a block of writes: no thread is between two
\* assignments to it, and when its status is 'completed' its filename is set
\* and its step is its total.
C38_NoTornRead ==
    [][/\ jobs' # jobs =>
              \/ \E t \in Threads : "jobs_lock" \in t.locks
              \/ \E h \in Handlers : "jobs_lock" \in h.locks
       /\ \A h \in Handlers :
              JobAnswer(h) =>
                  /\ ~\E t \in Threads : t.job_id = h.job_id /\ t.pc = "persist2"
                  /\ JobBody(h).status = "completed" =>
                         /\ JobBody(h).filename # NoFile
                         /\ JobBody(h).step = JobBody(h).total]_vars

\* the value a job gets for a setting: the saved one when the profile saves
\* it, else the caller's, clamped as create_job clamps it; the default when
\* neither gives one
ExpectedGuidance(saved, sent) ==
    LET v == IF saved # Unset THEN saved ELSE sent
    IN  IF v = Unset THEN DEFAULT_GUIDANCE ELSE Max({10, Min({200, v})})

ExpectedSteps(saved, sent) ==
    LET v == IF saved # Unset THEN saved ELSE sent
    IN  IF v = Unset THEN DEFAULT_STEPS ELSE Max({10, Min({150, v \div 10})})

NewRecord == Rec(jobs', issued')

\* C39: the job created for a request that names a saved profile has
\* character_consistency on whatever the request sent, and for each setting
\* the profile saves the job has the saved value, clamped like any other; the
\* job created for a request that names no saved profile has the prompt, the
\* flag and the settings of the request, and no character is ever attached to
\* it.
C39_ProfileOverrides ==
    [][\A r \in ProfileRequests :
          Generate(r, ProfileJobs) /\ issued' = issued + 1 =>
              IF r.character_id \in DOMAIN Characters
              THEN /\ NewRecord.character_consistency
                   /\ NewRecord.settings.guidance_scale =
                          ExpectedGuidance(Characters[r.character_id].guidance_scale,
                                           r.guidance_scale)
                   /\ NewRecord.settings.inference_steps =
                          ExpectedSteps(Characters[r.character_id].num_steps,
                                        r.inference_steps)
              ELSE /\ NewRecord.character_consistency = r.character_consistency
                   /\ NewRecord.prompt = r.prompt
                   /\ NewRecord.settings = JobSettings([guidance_scale |-> r.guidance_scale,
                                                        inference_steps |-> r.inference_steps])
                   /\ \A h \in BagToSet(handlers') \ Handlers :
                          h.pc # "attach" /\ h.character = NoCharacter]_vars

\* a job made for the profile that saves both settings out of range has them
\* clamped and its character attached, next to a job made for a request that
\* named a profile that does not exist and sent its own step count
C39_Witness ==
    \E i, k \in DOMAIN jobs :
        /\ jobs[i].character.name = "Titan"
        /\ jobs[i].character_consistency
        /\ jobs[i].settings = [guidance_scale |-> 200, inference_steps |-> 12]
        /\ jobs[k].character = NoCharacter
        /\ ~jobs[k].character_consistency
        /\ jobs[k].settings.inference_steps = 150

====
